---- MODULE Spec2Model ----
(***************************************************************************)
(* A model of aeqwabun.synspec.synspec.Synspec: the link table of an       *)
(* instance, and run(): resolve the directories, enter the run directory   *)
(* (a locked persistent directory or a fresh temporary one), remove the    *)
(* stale outputs of the destination, stage the links, verify the required  *)
(* files, run the solver, extract the outputs, leave the run directory.    *)
(*                                                                         *)
(* The filesystem is a map directory -> name -> entry; an entry is absent, *)
(* a regular file with a content, or a symbolic link to a path.  Each      *)
(* caller process owns one Synspec instance; all share the filesystem and  *)
(* the working directory "cwd".                                            *)
(***************************************************************************)
EXTENDS Integers, Sequences, FiniteSets, TLC

VARIABLES
    fs,         \* [Dirs -> [Names -> Entry]]: the content of every directory
    dirs,       \* the directories that exist
    lock,       \* [LockDirs -> Procs \cup {0}]: holder of <dir>/synspec.lock
    linkfiles,  \* [Procs -> dict]: self.linkfiles of each process's instance
    args,       \* [Procs -> record]: the arguments each process calls run with
    pc,         \* [Procs -> position inside run, "idle" or "done"]
    loc,        \* [Procs -> record]: run's locals (model, rundir, outdir, outfile)
    err,        \* [Procs -> the exception run is raising, "" when none]
    calls,      \* [Procs -> number of run calls started]
    hist        \* [Procs -> record]: observations of the current call

vars == <<fs, dirs, lock, linkfiles, args, pc, loc, err, calls, hist>>

----------------------------------------------------------------------------
(* Bounds and universes                                                    *)

MaxCalls == 2                   \* run calls per process

Procs == {1, 2}

None == "None"                  \* Python's None as an argument value

CWD == "cwd"                    \* Path.cwd() of every caller
TmpDirs == {"tmp1", "tmp2"}     \* names tempfile.TemporaryDirectory may pick
LockDirs == {"cwd", "run"}      \* directories a caller may name as rundir
Dirs == {"cwd", "run", "out"} \cup TmpDirs

\* Two units copied to each other's name.
OutPairs_Swapped ==
    << <<"12", "spec">>, <<"7", "iden">>, <<"16", "eqws">>, <<"17", "cont">> >>

\* The (unit, ext) pairs _extract_outfiles copies (lines 86-91).
OutPairs == << <<"7", "spec">>, <<"12", "iden">>, <<"16", "eqws">>, <<"17", "cont">> >>

\* The units the solver writes.
Units == <<"7", "12", "16", "17">>
DataExts == {"spec", "iden", "eqws", "cont"}
AllExts == DataExts \cup {"log"}

Models == {"m", "n"}
OutFiles == Models \cup {"o"}

ArtName(outfile, ext) == outfile \o "." \o ext
FortName(unit) == "fort." \o unit

\* A required file _check_files leaves unchecked.
RequiredSeq_No7 == <<"fort.19", "fort.55", "{model}.5">>

\* The files _check_files verifies, in its order (line 155).
RequiredSeq == <<"fort.19", "fort.55", "{model}.5", "{model}.7">>
Channels == {"fort.7", "fort.12", "fort.16", "fort.17", "fort.8", "fort.log"}
InputNames == {"fort.19", "fort.55", "fort.56", "linelist", "data"}
                 \cup {m \o ".5" : m \in Models} \cup {m \o ".7" : m \in Models}
Names == InputNames \cup Channels
           \cup {ArtName(o, e) : o \in OutFiles, e \in AllExts}

----------------------------------------------------------------------------
(* Filesystem entries and paths                                            *)

Absent == [kind |-> "none", data |-> "", dir |-> "", name |-> ""]
File(d) == [kind |-> "file", data |-> d, dir |-> "", name |-> ""]
Link(dir, name) == [kind |-> "link", data |-> "", dir |-> dir, name |-> name]

Path(dir, name) == [dir |-> dir, name |-> name]

EmptyDir == [n \in Names |-> Absent]

MaxHops == 4                    \* symbolic links followed before giving up

RECURSIVE ResolveN(_, _, _)
ResolveN(f, p, n) ==
    IF n = 0 \/ p.name \notin Names THEN p
    ELSE LET e == f[p.dir][p.name]
         IN IF e.kind = "link" THEN ResolveN(f, Path(e.dir, e.name), n - 1)
            ELSE p

\* Path.resolve(): the path with every symbolic link followed.
Resolve(f, p) == ResolveN(f, p, MaxHops)

\* Path.exists() / Path.is_file(): links are followed, a dangling link is absent.
Exists(f, ds, p) ==
    LET r == Resolve(f, p)
    IN r.dir \in ds /\ r.name \in Names /\ f[r.dir][r.name].kind = "file"

\* The content read through a path (links followed); "" when there is none.
Read(f, ds, p) ==
    LET r == Resolve(f, p)
    IN IF Exists(f, ds, p) THEN f[r.dir][r.name].data ELSE ""

\* f with the entry at path p set to e.
Put(f, p, e) == [f EXCEPT ![p.dir][p.name] = e]

\* Writing through a path: open(p, "w") and shutil.copyfile follow a link at p.
WriteFile(f, p, d) == Put(f, Resolve(f, p), File(d))

----------------------------------------------------------------------------
(* The link table: an insertion-ordered dict, destination -> source        *)

Entry(dst, src) == [dst |-> dst, src |-> src]

\* Synspec.__init__: the default links.
DefaultLinks ==
    << Entry("fort.19", "fort.19"),
       Entry("fort.55", "fort.55"),
       Entry("{model}.5", "{modelpath}.5"),
       Entry("{model}.7", "{modelpath}.7") >>

Keys(d) == {d[i].dst : i \in DOMAIN d}

Get(d, k) == d[CHOOSE i \in DOMAIN d : d[i].dst = k].src

\* An assignment that always adds an entry.
DictSet_Append(d, k, v) == Append(d, Entry(k, v))

\* d[k] = v of a Python dict: an existing key keeps its position.
DictSet(d, k, v) ==
    IF k \in Keys(d)
    THEN [i \in DOMAIN d |-> IF d[i].dst = k THEN Entry(k, v) ELSE d[i]]
    ELSE Append(d, Entry(k, v))

\* Synspec.add_link(linkfrom, linkto=None)
AddLinkTable(d, linkfrom, linkto) ==
    LET to == IF linkto = None THEN linkfrom ELSE linkto
    IN DictSet(d, to, linkfrom)

\* str.format(model=..., modelpath=...) of a destination: a name in the run
\* directory.
FormatDst(t, model) ==
    CASE t = "{model}.5" -> model \o ".5"
      [] t = "{model}.7" -> model \o ".7"
      [] OTHER -> t

\* str.format of a source, as a path: {modelpath} is absolute, every other
\* source is relative to the caller's working directory.
FormatSrc(t, model, modeldir) ==
    CASE t = "{modelpath}.5" -> Path(modeldir, model \o ".5")
      [] t = "{modelpath}.7" -> Path(modeldir, model \o ".7")
      [] OTHER -> Path(CWD, FormatDst(t, model))

----------------------------------------------------------------------------
(* run(): resolution of the arguments (lines 45-63)                        *)

\* A run that never takes the lock of a caller-named directory.
RdProvider_AlwaysTemp(rundir) == "tempdir"

\* The provider of the run directory.
RdProvider(rundir) == IF rundir = None THEN "tempdir" ELSE "folderlock"

\* A destination that defaults to the working directory in every mode.
OutDirOf_Cwd(rundir, outdir) == IF outdir # None THEN outdir ELSE CWD

\* The destination directory.
OutDirOf(rundir, outdir) ==
    IF outdir # None THEN outdir
    ELSE IF rundir = None THEN CWD ELSE rundir

\* The output name.
OutFileOf(outfile, model) == IF outfile = None THEN model ELSE outfile

\* The arguments of a caller's calls: model is the model of its first call,
\* later the model of its later calls.
Args == [model : Models, later : Models, rundir : {None, "cwd", "run"},
         outdir : {None, "out"}, outfile : {None, "o"}]

\* Callers that run the model "m" in every call.
ArgsOneModel == {a \in Args : a.model = "m" /\ a.later = "m"}

NoLoc == [model |-> "", modeldir |-> "", provider |-> "", rundir |-> "",
          outdir |-> "", outfile |-> ""]

\* The artifacts of the destination under the output name: ext -> entry.
Artifacts(f, outdir, outfile) ==
    [e \in AllExts |-> f[outdir][ArtName(outfile, e)]]

\* The four required inputs, and those of them whose source, as the link
\* table maps it, is absent.
RequiredInputs == {"fort.19", "fort.55", "{model}.5", "{model}.7"}

AbsentRequired(f, ds, d, model, modeldir) ==
    {k \in RequiredInputs : ~Exists(f, ds, FormatSrc(Get(d, k), model, modeldir))}

\* What a finished call left: the exception and the destination's artifacts.
Outcome(kind, arts) == [kind |-> kind, arts |-> arts]
NoOutcome == Outcome("none", [e \in AllExts |-> Absent])

NoHist == [preout |-> [n \in Names |-> Absent],
           prefs |-> [d \in Dirs |-> [n \in Names |-> Absent]], predirs |-> {},
           absent |-> {}, solver |-> 0, produced |-> [c \in Channels |-> ""],
           prev |-> NoOutcome, changed |-> FALSE, unchanged |-> FALSE,
           phases |-> <<>>, code |-> -1, tty |-> "",
                        staged |-> [n \in Names |-> Absent]]

----------------------------------------------------------------------------
(* Collaborators that live outside synspec.py                              *)

NoErr == [kind |-> "", what |-> ""]
Raise(kind, what) == [kind |-> kind, what |-> what]

\* utils.symlinkf(target, at): force-create a symbolic link, replacing
\* whatever is at the destination.
Symlinkf(f, target, at) == Put(f, at, Link(target.dir, target.name))

\* units.readinput: the relative first path segments the input descriptor
\* refers to (finstd and the ions' filei).
Refs(data) == IF data = "in+data" THEN {"data"} ELSE {}

\* units.read55f(...).ichemc
Ichemc(data) == IF data = "cfg1" THEN 1 ELSE 0

\* The solver, a deterministic function of what it reads in its working
\* directory: the linelist fort.19, the configuration fort.55, the model
\* atmosphere fort.8, fort.56 when the chemistry flag is set, and the data
\* the input descriptor (standard input) refers to.
SolverReads(f, ds, rundir, stdin) ==
    {"fort.19", "fort.55", "fort.8"}
      \cup (IF Ichemc(Read(f, ds, Path(rundir, "fort.55"))) # 0
            THEN {"fort.56"} ELSE {})
      \cup Refs(Read(f, ds, stdin))

SolverExit(f, ds, rundir, stdin) ==
    IF /\ \A n \in SolverReads(f, ds, rundir, stdin) : Exists(f, ds, Path(rundir, n))
       /\ Read(f, ds, Path(rundir, "fort.8")) # "bad"
    THEN 0 ELSE 1

SolverData(f, ds, rundir, unit) ==
    unit \o "(" \o Read(f, ds, Path(rundir, "fort.19")) \o ","
         \o Read(f, ds, Path(rundir, "fort.8")) \o ")"

RECURSIVE WriteUnits(_, _, _, _, _)
WriteUnits(f, f0, ds, rundir, i) ==
    IF i > Len(Units) THEN f
    ELSE WriteUnits(WriteFile(f, Path(rundir, FortName(Units[i])),
                              SolverData(f0, ds, rundir, Units[i])),
                    f0, ds, rundir, i + 1)

\* What the solver prints on its standard output and on its standard error:
\* the log of the computation, and a diagnostic when it fails.
SolverStdout(f, ds, rundir, stdin) ==
    IF SolverExit(f, ds, rundir, stdin) = 0
    THEN SolverData(f, ds, rundir, "log") ELSE "error"

SolverStderr(f, ds, rundir, stdin) ==
    IF SolverExit(f, ds, rundir, stdin) = 0 THEN "" ELSE "diag"

\* A solver whose standard error is bound to the log as well.
Stderr_ToLog == "fort.log"

\* lines 77-79: subprocess.run is given stdout=log and no stderr, so the
\* solver inherits the caller's standard error.
Stderr == "inherit"

\* What fort.log holds when the solver has printed out and diag, and what
\* the caller's standard error received.
LogText(out, diag) ==
    IF Stderr = "fort.log" /\ diag # "" THEN out \o "+" \o diag ELSE out

TtyText(diag) == IF Stderr = "inherit" THEN diag ELSE ""

\* The filesystem after the solver ran in rundir with its standard output on
\* fort.log: every unit and the log on a zero exit, a partial fort.7 and the
\* log otherwise.
SolverWrites(f, ds, rundir, stdin) ==
    LET log == LogText(SolverStdout(f, ds, rundir, stdin),
                       SolverStderr(f, ds, rundir, stdin))
    IN IF SolverExit(f, ds, rundir, stdin) = 0
       THEN WriteFile(WriteUnits(f, f, ds, rundir, 1), Path(rundir, "fort.log"), log)
       ELSE WriteFile(WriteFile(f, Path(rundir, "fort.7"), "partial"),
                      Path(rundir, "fort.log"), log)

----------------------------------------------------------------------------
(* The phases of run, as functions of the filesystem                       *)

\* A cleanup that forgets one of the data kinds.
CleanupExts_NoCont == {"spec", "iden", "eqws"}

\* A cleanup that removes the log as well.
CleanupExts_WithLog == {"spec", "iden", "eqws", "cont", "log"}

\* The extensions _remove_potential_outfiles loops over (line 100).
CleanupExts == {"spec", "iden", "eqws", "cont"}

\* Synspec._remove_potential_outfiles
RemovedOutfiles(f, ds, outdir, outfile) ==
    IF outdir \notin ds THEN f
    ELSE [f EXCEPT ![outdir] =
            [n \in Names |->
               IF \E e \in CleanupExts :
                     n = ArtName(outfile, e) /\ Exists(f, ds, Path(outdir, n))
               THEN Absent ELSE @[n]]]

RECURSIVE AddReqs_Overwrite(_, _, _, _)
\* References that replace the entry the table has for them.
AddReqs_Overwrite(d, f, ds, reqs) ==
    IF reqs = {} THEN d
    ELSE LET req == CHOOSE r \in reqs : TRUE
             d1 == IF Exists(f, ds, Path(CWD, req))
                   THEN DictSet(d, req, req) ELSE d
         IN AddReqs_Overwrite(d1, f, ds, reqs \ {req})

RECURSIVE AddReqs(_, _, _, _)
\* lines 127-129: a reference that exists and is no key yet links to itself.
AddReqs(d, f, ds, reqs) ==
    IF reqs = {} THEN d
    ELSE LET req == CHOOSE r \in reqs : TRUE
             d1 == IF Exists(f, ds, Path(CWD, req)) /\ req \notin Keys(d)
                   THEN DictSet(d, req, req) ELSE d
         IN AddReqs(d1, f, ds, reqs \ {req})

\* A table that is never taken to have a fort.56 entry.
HasFort56_Never(d) == FALSE

\* line 132: does the table have an entry for fort.56?
HasFort56(d) == "fort.56" \in Keys(d)

\* A detection that links fort.56 without looking for it.
DetectFort56_NoCheck(d, f, ds, model) ==
    IF "fort.56" \in Keys(d) THEN [links |-> d, err |-> NoErr]
    ELSE LET cofigfile == Path(CWD, FormatDst(Get(d, "fort.55"), model))
         IN IF ~Exists(f, ds, cofigfile)
            THEN [links |-> d, err |-> Raise("FileNotFoundError", cofigfile.name)]
            ELSE IF Ichemc(Read(f, ds, cofigfile)) = 0
            THEN [links |-> d, err |-> NoErr]
            ELSE [links |-> DictSet(d, "fort.56", "fort.56"), err |-> NoErr]

\* lines 131-139: [links, err] after the detection of the need for fort.56.
DetectFort56(d, f, ds, model) ==
    IF HasFort56(d) THEN [links |-> d, err |-> NoErr]
    ELSE LET cofigfile == Path(CWD, FormatDst(Get(d, "fort.55"), model))
         IN IF ~Exists(f, ds, cofigfile)
            THEN [links |-> d, err |-> Raise("FileNotFoundError", cofigfile.name)]
            ELSE IF Ichemc(Read(f, ds, cofigfile)) = 0
            THEN [links |-> d, err |-> NoErr]
            ELSE IF Exists(f, ds, Path(CWD, "fort.56"))
            THEN [links |-> DictSet(d, "fort.56", "fort.56"), err |-> NoErr]
            ELSE [links |-> d, err |-> Raise("FileNotFoundError", "fort.56")]

\* A discovery that starts every run from a fresh table of defaults.
Discover_FromDefaults(d, f, ds, model, modeldir) ==
    LET inputfile == FormatSrc(Get(DefaultLinks, "{model}.5"), model, modeldir)
    IN IF ~Exists(f, ds, inputfile)
       THEN [links |-> DefaultLinks, err |-> Raise("FileNotFoundError", inputfile.name)]
       ELSE DetectFort56(AddReqs(DefaultLinks, f, ds, Refs(Read(f, ds, inputfile))),
                         f, ds, model)

\* lines 107-139: [links, err] after the discovery of _copy_to_rundir.
Discover(d, f, ds, model, modeldir) ==
    LET inputfile == FormatSrc(Get(d, "{model}.5"), model, modeldir)
    IN IF ~Exists(f, ds, inputfile)
       THEN [links |-> d, err |-> Raise("FileNotFoundError", inputfile.name)]
       ELSE DetectFort56(AddReqs(d, f, ds, Refs(Read(f, ds, inputfile))),
                         f, ds, model)

\* A test that skips every link whose source is the destination's path in
\* the working directory, whatever the run directory.
LinkNeeded_SamePathOnly(f, rundir, src, dstname) ==
    src # Resolve(f, Path(CWD, dstname))

\* lines 143-151: is the link of one entry created?
LinkNeeded(f, rundir, src, dstname) ==
    rundir # CWD \/ src # Resolve(f, Path(CWD, dstname))

RECURSIVE StageLinks(_, _, _, _, _, _)
\* lines 141-151: the links of the table, created in the table's order.
StageLinks(f, d, i, rundir, model, modeldir) ==
    IF i > Len(d) THEN f
    ELSE LET src == Resolve(f, FormatSrc(d[i].src, model, modeldir))
             dstname == FormatDst(d[i].dst, model)
             f1 == IF LinkNeeded(f, rundir, src, dstname)
                   THEN Symlinkf(f, src, Path(rundir, dstname))
                   ELSE f
         IN StageLinks(f1, d, i + 1, rundir, model, modeldir)

\* Synspec._check_files: the first required file missing from rundir, or "".
MissingFile(f, ds, rundir, model) ==
    LET miss == {i \in DOMAIN RequiredSeq :
                   ~Exists(f, ds, Path(rundir, FormatDst(RequiredSeq[i], model)))}
    IN IF miss = {} THEN ""
       ELSE FormatDst(RequiredSeq[CHOOSE i \in miss : \A j \in miss : i <= j], model)

RECURSIVE CopyOut(_, _, _, _, _, _)
\* lines 86-93: the copies of _extract_outfiles in order, up to the first
\* source that is missing: [fs, err].
CopyOut(f, ds, rundir, outdir, outfile, i) ==
    IF i > Len(OutPairs) + 1 THEN [fs |-> f, err |-> NoErr]
    ELSE LET from == IF i <= Len(OutPairs) THEN FortName(OutPairs[i][1])
                     ELSE "fort.log"
             ext == IF i <= Len(OutPairs) THEN OutPairs[i][2] ELSE "log"
         IN IF ~Exists(f, ds, Path(rundir, from))
            THEN [fs |-> f, err |-> Raise("FileNotFoundError", from)]
            ELSE CopyOut(WriteFile(f, Path(outdir, ArtName(outfile, ext)),
                                   Read(f, ds, Path(rundir, from))),
                         ds, rundir, outdir, outfile, i + 1)

----------------------------------------------------------------------------
(* Initial states: the caller's working directory before the first call    *)

Stale == File("stale")

\* The working directory: the inputs of the model "m" (one of the required
\* ones may be missing), a second model "n" that refers to no data, an
\* alternative linelist, and, when stale, the outputs and the fort.7 of an
\* earlier run.
CwdFiles(missing, atm, input, data, cfg, chem, stale) ==
    [n \in Names |->
       CASE n = "fort.19" -> IF missing = "fort.19" THEN Absent ELSE File("ll")
         [] n = "fort.55" -> IF missing = "fort.55" THEN Absent ELSE File(cfg)
         [] n = "m.5" -> IF missing = "{model}.5" THEN Absent ELSE File(input)
         [] n = "m.7" -> IF missing = "{model}.7" THEN Absent ELSE File(atm)
         [] n = "n.5" -> File("in")
         [] n = "n.7" -> File("atm")
         [] n = "fort.56" -> IF chem THEN File("chem") ELSE Absent
         [] n = "data" -> IF data THEN File("ions") ELSE Absent
         [] n = "linelist" -> File("ll2")
         [] n = "fort.7" -> IF stale THEN Stale ELSE Absent
         [] n \in {ArtName(o, e) : o \in OutFiles, e \in AllExts} ->
                IF stale THEN Stale ELSE Absent
         [] OTHER -> Absent]

\* A directory left by an earlier run: outputs, a fort.7 and a copy of the
\* linelist where a link will be staged.
StaleDir ==
    [n \in Names |->
       IF n = "fort.7" \/ n \in {ArtName(o, e) : o \in OutFiles, e \in AllExts}
       THEN Stale
       ELSE IF n = "fort.19" THEN File("oldll") ELSE Absent]

InitFs(cwd, stale) ==
    [d \in Dirs |-> IF d = CWD THEN cwd
                    ELSE IF stale /\ d \in {"run", "out"} THEN StaleDir
                    ELSE EmptyDir]

InitCommon ==
    /\ lock = [d \in LockDirs |-> 0]
    /\ linkfiles = [p \in Procs |-> DefaultLinks]
    /\ pc = [p \in Procs |-> "idle"]
    /\ loc = [p \in Procs |-> NoLoc]
    /\ err = [p \in Procs |-> NoErr]
    /\ hist = [p \in Procs |-> NoHist]

\* One caller (process 1); every combination of inputs.
Init ==
    /\ \E missing \in RequiredInputs \cup {""}, atm \in {"atm", "bad"},
          disc \in {<<"in", FALSE>>, <<"in+data", TRUE>>, <<"in+data", FALSE>>},
          conf \in {<<"cfg0", FALSE>>, <<"cfg1", TRUE>>, <<"cfg1", FALSE>>},
          stale \in BOOLEAN :
         /\ fs = InitFs(CwdFiles(missing, atm, disc[1], disc[2], conf[1], conf[2],
                                 stale), stale)
         /\ dirs = IF stale THEN {"cwd", "run", "out"} ELSE {"cwd"}
    /\ \E a \in ArgsOneModel : args = [p \in Procs |-> a]
    /\ calls = [p \in Procs |-> IF p = 1 THEN 0 ELSE MaxCalls]
    /\ InitCommon

----------------------------------------------------------------------------
(* Actions                                                                 *)

Idle(p) == pc[p] \in {"idle", "done"} /\ calls[p] < MaxCalls

\* The (linkfrom, linkto) pairs callers pass to add_link.
LinkArgs == {<<"linelist", "fort.19">>, <<"fort.19", None>>, <<"data", None>>}

\* Synspec.add_link
AddLink(p, linkfrom, linkto) ==
    /\ Idle(p)
    /\ linkfiles' = [linkfiles EXCEPT ![p] = AddLinkTable(@, linkfrom, linkto)]
    /\ linkfiles' # linkfiles
    /\ hist' = [hist EXCEPT ![p].changed = TRUE]
    /\ UNCHANGED <<fs, dirs, lock, args, pc, loc, err, calls>>

\* Synspec.run, lines 45-63: the locals are resolved and a caller-named run
\* directory is created.
Run(p) ==
    /\ Idle(p)
    /\ LET a == args[p]
           model == IF calls[p] = 0 THEN a.model ELSE a.later
           outdir == OutDirOf(a.rundir, a.outdir)
           outfile == OutFileOf(a.outfile, model)
       IN /\ loc' = [loc EXCEPT ![p] =
                       [model |-> model, modeldir |-> CWD,
                        provider |-> RdProvider(a.rundir),
                        rundir |-> IF a.rundir = None THEN "" ELSE a.rundir,
                        outdir |-> outdir, outfile |-> outfile]]
          /\ dirs' = IF a.rundir = None THEN dirs ELSE dirs \cup {a.rundir}
          /\ hist' = [hist EXCEPT ![p] =
                       [preout |-> fs[outdir],
                        prefs |-> fs, predirs |-> dirs,
                        absent |-> AbsentRequired(fs, dirs, linkfiles[p], model, CWD),
                        solver |-> 0,
                        produced |-> [c \in Channels |-> ""],
                        prev |-> IF pc[p] = "done"
                                 THEN Outcome(err[p].kind,
                                              Artifacts(fs, outdir, outfile))
                                 ELSE NoOutcome,
                        changed |-> FALSE,
                        unchanged |-> pc[p] = "done" /\ ~hist[p].changed,
                        phases |-> <<>>, code |-> -1, tty |-> "",
                        staged |-> [n \in Names |-> Absent]]]
    /\ pc' = [pc EXCEPT ![p] = "enter"]
    /\ err' = [err EXCEPT ![p] = NoErr]
    /\ calls' = [calls EXCEPT ![p] = @ + 1]
    /\ UNCHANGED <<fs, lock, linkfiles, args>>

\* A temporary directory whose name may be in use.
FreshTmp_Any(ds) == TmpDirs

\* The names tempfile.TemporaryDirectory chooses among: those not in use.
FreshTmp(ds) == TmpDirs \ ds

\* tempdir(), entered: a fresh, empty, uniquely named directory.
EnterTemp(p) ==
    /\ pc[p] = "enter" /\ loc[p].provider = "tempdir"
    /\ \E t \in FreshTmp(dirs) :
         /\ dirs' = dirs \cup {t}
         /\ fs' = [fs EXCEPT ![t] = EmptyDir]
         /\ loc' = [loc EXCEPT ![p].rundir = t]
    /\ pc' = [pc EXCEPT ![p] = "cleanup"]
    /\ UNCHANGED <<lock, linkfiles, args, err, calls, hist>>

\* utils.folderlock, entered: the lock of the directory is free and taken.
EnterLock(p) ==
    /\ pc[p] = "enter" /\ loc[p].provider = "folderlock"
    /\ lock[loc[p].rundir] = 0
    /\ lock' = [lock EXCEPT ![loc[p].rundir] = p]
    /\ pc' = [pc EXCEPT ![p] = "cleanup"]
    /\ UNCHANGED <<fs, dirs, linkfiles, args, loc, err, calls, hist>>

\* utils.folderlock, refused: the lock is held and the call fails.  (A call
\* that waits instead takes no step until EnterLock is enabled.)
EnterBusy(p) ==
    /\ pc[p] = "enter" /\ loc[p].provider = "folderlock"
    /\ lock[loc[p].rundir] # 0
    /\ err' = [err EXCEPT ![p] = Raise("Busy", loc[p].rundir)]
    /\ pc' = [pc EXCEPT ![p] = "done"]
    /\ UNCHANGED <<fs, dirs, lock, linkfiles, args, loc, calls, hist>>

\* An exception that leaves the call without leaving the run directory.
OnError_NoExit == "done"

\* Where an exception raised inside the with block of line 65 takes the
\* call: through the exit of the context manager.
OnError == "exit"

\* Synspec._remove_potential_outfiles
RemovePotentialOutfiles(p) ==
    /\ pc[p] = "cleanup"
    /\ fs' = RemovedOutfiles(fs, dirs, loc[p].outdir, loc[p].outfile)
    /\ pc' = [pc EXCEPT ![p] = "stage"]
    /\ hist' = [hist EXCEPT ![p].phases = Append(@, "cleanup")]
    /\ UNCHANGED <<dirs, lock, linkfiles, args, loc, err, calls>>

\* Links created from the table as it was before discovery.
StagedTable_Before(before, after) == before

\* The table whose entries line 142 links: the table after discovery.
StagedTable(before, after) == after

\* The links that stand at the destinations of the table d in rundir.
StagedLinks(f, d, rundir, model) ==
    [n \in Names |->
       IF f[rundir][n].kind = "link" /\ \E k \in Keys(d) : FormatDst(k, model) = n
       THEN f[rundir][n] ELSE Absent]

\* Synspec._copy_to_rundir
CopyToRundir(p) ==
    /\ pc[p] = "stage"
    /\ LET r == Discover(linkfiles[p], fs, dirs, loc[p].model, loc[p].modeldir)
       IN /\ linkfiles' = [linkfiles EXCEPT ![p] = r.links]
          /\ IF r.err.kind # ""
             THEN /\ err' = [err EXCEPT ![p] = r.err]
                  /\ pc' = [pc EXCEPT ![p] = OnError]
                  /\ fs' = fs
                  /\ hist' = [hist EXCEPT ![p].phases = Append(@, "discover")]
             ELSE /\ fs' = StageLinks(fs, StagedTable(linkfiles[p], r.links), 1,
                                      loc[p].rundir, loc[p].model, loc[p].modeldir)
                  /\ pc' = [pc EXCEPT ![p] = "check"]
                  /\ err' = err
                  /\ hist' = [hist EXCEPT
                       ![p].phases = @ \o <<"discover", "link">>,
                       ![p].staged = StagedLinks(fs', r.links, loc[p].rundir,
                                                 loc[p].model)]
    /\ UNCHANGED <<dirs, lock, args, loc, calls>>

\* Synspec._check_files
CheckFiles(p) ==
    /\ pc[p] = "check"
    /\ LET fn == MissingFile(fs, dirs, loc[p].rundir, loc[p].model)
       IN IF fn # ""
          THEN /\ err' = [err EXCEPT ![p] = Raise("FileNotFoundError", fn)]
               /\ pc' = [pc EXCEPT ![p] = OnError]
          ELSE /\ pc' = [pc EXCEPT ![p] = "run"]
               /\ err' = err
    /\ hist' = [hist EXCEPT ![p].phases = Append(@, "check")]
    /\ UNCHANGED <<fs, dirs, lock, linkfiles, args, loc, calls>>

\* A solver whose exit status is not looked at (check=False).
CheckExit_Never(code) == FALSE

\* subprocess.run(..., check=True): does a non-zero exit raise?
CheckExit(code) == code # 0

\* Synspec._run: fort.8 is linked to the model's .7, fort.log is opened for
\* writing, the solver runs once.
RunSolver(p) ==
    /\ pc[p] = "run"
    /\ LET rundir == loc[p].rundir
           stdin == Path(rundir, loc[p].model \o ".5")
           f1 == Symlinkf(fs, Path(rundir, loc[p].model \o ".7"),
                          Path(rundir, "fort.8"))
       IN IF ~Exists(f1, dirs, stdin)
          THEN /\ fs' = f1
               /\ err' = [err EXCEPT ![p] = Raise("FileNotFoundError", stdin.name)]
               /\ pc' = [pc EXCEPT ![p] = OnError]
               /\ hist' = [hist EXCEPT ![p].phases = Append(@, "run")]
          ELSE LET f2 == WriteFile(f1, Path(rundir, "fort.log"), "")
                   code == SolverExit(f2, dirs, rundir, stdin)
                   f3 == SolverWrites(f2, dirs, rundir, stdin)
               IN /\ fs' = f3
                  /\ hist' = [hist EXCEPT
                       ![p].solver = @ + 1,
                       ![p].code = code,
                       ![p].tty = TtyText(SolverStderr(f2, dirs, rundir, stdin)),
                       ![p].phases = Append(@, "run"),
                       ![p].produced =
                          [c \in Channels |-> Read(f3, dirs, Path(rundir, c))]]
                  /\ IF CheckExit(code)
                     THEN /\ err' = [err EXCEPT ![p] =
                                       Raise("CalledProcessError", "synspec")]
                          /\ pc' = [pc EXCEPT ![p] = OnError]
                     ELSE /\ err' = err
                          /\ pc' = [pc EXCEPT ![p] = "extract"]
    /\ UNCHANGED <<dirs, lock, linkfiles, args, loc, calls>>

\* Synspec._extract_outfiles
ExtractOutfiles(p) ==
    /\ pc[p] = "extract"
    /\ dirs' = dirs \cup {loc[p].outdir}
    /\ LET r == CopyOut(fs, dirs', loc[p].rundir, loc[p].outdir, loc[p].outfile, 1)
       IN /\ fs' = r.fs
          /\ err' = [err EXCEPT ![p] = r.err]
          /\ pc' = [pc EXCEPT ![p] = IF r.err.kind # "" THEN OnError ELSE "exit"]
    /\ hist' = [hist EXCEPT ![p].phases = Append(@, "extract")]
    /\ UNCHANGED <<lock, linkfiles, args, loc, calls>>

\* A temporary directory that is never removed.
Destroyed_Keep(ds, t) == ds

\* The directories left when tempfile.TemporaryDirectory is exited.
Destroyed(ds, t) == ds \ {t}

\* The end of the with block, reached normally or by an exception: the
\* temporary directory is destroyed, the lock is released.
Exit(p) ==
    /\ pc[p] = "exit"
    /\ IF loc[p].provider = "tempdir"
       THEN /\ dirs' = Destroyed(dirs, loc[p].rundir)
            /\ fs' = [fs EXCEPT ![loc[p].rundir] = EmptyDir]
            /\ lock' = lock
       ELSE /\ lock' = [lock EXCEPT ![loc[p].rundir] = 0]
            /\ UNCHANGED <<fs, dirs>>
    /\ pc' = [pc EXCEPT ![p] = "done"]
    /\ UNCHANGED <<linkfiles, args, loc, err, calls, hist>>

\* The steps of a call of run.
RunStep(p) ==
    \/ Run(p)
    \/ EnterTemp(p)
    \/ EnterLock(p)
    \/ RemovePotentialOutfiles(p)
    \/ CopyToRundir(p)
    \/ CheckFiles(p)
    \/ RunSolver(p)
    \/ ExtractOutfiles(p)
    \/ Exit(p)

\* One caller: add_link and run, one call after the other.
Next ==
    \E p \in Procs :
        \/ \E l \in LinkArgs : AddLink(p, l[1], l[2])
        \/ RunStep(p)

Spec == Init /\ [][Next]_vars

\* Two callers, each making one call of run on an instance of its own, with
\* every input present.
InitConc ==
    /\ \E atm \in {"atm", "bad"}, stale \in BOOLEAN :
         /\ fs = InitFs(CwdFiles("", atm, "in", FALSE, "cfg0", FALSE, stale), stale)
         /\ dirs = IF stale THEN {"cwd", "run", "out"} ELSE {"cwd"}
    /\ args \in {x \in [Procs -> ArgsOneModel] : x[1].outfile = None}
    /\ calls = [p \in Procs |-> MaxCalls - 1]
    /\ InitCommon

NextConc ==
    \E p \in Procs :
        \/ RunStep(p)
        \/ EnterBusy(p)

SpecConc == InitConc /\ [][NextConc]_vars

\* add_link calls that give data and fort.56 an entry of the caller's own.
MoreLinkArgs == {<<"linelist", "data">>, <<"fort.56", None>>,
                 <<"linelist", "fort.56">>}

\* One caller whose calls may run two models, with entries of its own for
\* the files discovery looks for; the configuration may be missing.
InitDisc ==
    /\ \E missing \in {"", "fort.55"}, atm \in {"atm", "bad"},
          disc \in {<<"in", FALSE>>, <<"in+data", TRUE>>, <<"in+data", FALSE>>},
          conf \in {<<"cfg0", FALSE>>, <<"cfg1", TRUE>>, <<"cfg1", FALSE>>} :
         fs = InitFs(CwdFiles(missing, atm, disc[1], disc[2], conf[1], conf[2],
                              FALSE), FALSE)
    /\ dirs = {"cwd"}
    /\ \E a \in {x \in Args : x.outdir = None /\ x.outfile = None} :
          args = [p \in Procs |-> a]
    /\ calls = [p \in Procs |-> IF p = 1 THEN 0 ELSE MaxCalls]
    /\ InitCommon

NextDisc ==
    \E p \in Procs :
        \/ \E l \in MoreLinkArgs : AddLink(p, l[1], l[2])
        \/ RunStep(p)

SpecDisc == InitDisc /\ [][NextDisc]_vars

----------------------------------------------------------------------------
(* Properties                                                              *)

FNF == "FileNotFoundError"
CPE == "CalledProcessError"

Done(p) == pc[p] = "done"

\* The artifacts of the call's destination under its output name, now and
\* when the call started.
Arts(p) == Artifacts(fs, loc[p].outdir, loc[p].outfile)
PreArts(p) == [e \in AllExts |-> hist[p].preout[ArtName(loc[p].outfile, e)]]

\* The call failed in discovery, in the verification of the required files
\* or by the solver's exit status.
FailedRun(p) ==
    /\ Done(p)
    /\ \/ err[p].kind = CPE
       \/ err[p].kind = FNF /\ hist[p].solver = 0

\* C1 as stated: after a failed run the destination holds none of the five
\* artifacts (spec, iden, eqws, cont, log) under the output name, stale ones
\* included.
C1_Original ==
    \A p \in Procs :
        FailedRun(p) => \A e \in AllExts : Arts(p)[e] = Absent

\* C1, amended: after a failed run the destination holds none of the four
\* data artifacts (spec, iden, eqws, cont) under the output name, stale ones
\* included; the log artifact is as it was before the call (a stale log is
\* not removed, no log is written).
C1_FailedRunLeavesNoData ==
    \A p \in Procs :
        FailedRun(p) =>
            /\ \A e \in DataExts : Arts(p)[e] = Absent
            /\ Arts(p)["log"] = PreArts(p)["log"]

\* A run failed by the solver's exit status where the destination held
\* stale artifacts.
C1_Witness ==
    \E p \in Procs :
        /\ Done(p) /\ err[p].kind = CPE
        /\ \A e \in AllExts : PreArts(p)[e] = Stale

\* The artifact each solver channel is extracted to.
Produces ==
    { <<"fort.7", "spec">>, <<"fort.12", "iden">>, <<"fort.16", "eqws">>,
      <<"fort.17", "cont">>, <<"fort.log", "log">> }

\* C2: after a successful run each of the five artifacts of the destination
\* is a file holding what the solver wrote to its channel in this run,
\* whatever was there before.
C2_SuccessReplacesArtifacts ==
    \A p \in Procs :
        Done(p) /\ err[p].kind = "" =>
            \A c \in Produces :
                /\ hist[p].produced[c[1]] # ""
                /\ Arts(p)[c[2]] = File(hist[p].produced[c[1]])

\* A successful run over stale artifacts.
C2_Witness ==
    \E p \in Procs :
        /\ Done(p) /\ err[p].kind = "" /\ hist[p].solver = 1
        /\ \A e \in AllExts : PreArts(p)[e] = Stale /\ Arts(p)[e] # Stale

\* C3: a run called with exactly one required input absent fails with
\* FileNotFoundError, never invokes the solver and produces no artifact.
C3_MissingRequiredFails ==
    \A p \in Procs :
        Done(p) /\ Cardinality(hist[p].absent) = 1 =>
            /\ err[p].kind = FNF
            /\ hist[p].solver = 0
            /\ \A e \in DataExts : Arts(p)[e] = Absent
            /\ Arts(p)["log"] = PreArts(p)["log"]

\* A run in a directory of its own whose {model}.7 was absent, refused by
\* _check_files.
C3_Witness ==
    \E p \in Procs :
        /\ Done(p) /\ hist[p].absent = {"{model}.7"}
        /\ loc[p].rundir = "run" /\ err[p] = Raise(FNF, "m.7")

\* The call is inside the with block: cleanup, staging, verification,
\* solver, extraction, or leaving.
InSeq(p) == pc[p] \in {"cleanup", "stage", "check", "run", "extract", "exit"}

SamePersistent(p, q) ==
    p # q /\ args[p].rundir # None /\ args[p].rundir = args[q].rundir

\* C4: of two invocations on the same caller-named run directory at most one
\* is inside its cleanup/stage/run/extract sequence at a time, and the one
\* refused by the lock has staged, run and extracted nothing.
C4_OneAtATime ==
    \A p, q \in Procs :
        SamePersistent(p, q) =>
            /\ ~(InSeq(p) /\ InSeq(q))
            /\ Done(q) /\ err[q].kind = "Busy" =>
                  /\ hist[q].solver = 0
                  /\ linkfiles[q] = DefaultLinks

\* One invocation is inside its sequence and the other was refused.
C4_Witness ==
    \E p, q \in Procs :
        /\ SamePersistent(p, q)
        /\ pc[p] = "run"
        /\ Done(q) /\ err[q].kind = "Busy"

\* C5: in a caller-named run directory the lock is held by the call from
\* cleanup to extraction and is free once the call has returned or raised,
\* whatever the exit path.
C5_LockHeldThenReleased ==
    \A p \in Procs :
        loc[p].provider = "folderlock" =>
            /\ InSeq(p) => lock[loc[p].rundir] = p
            /\ Done(p) => lock[loc[p].rundir] = 0

\* A second call holds the lock after a first one failed in the solver.
C5_Witness ==
    \E p \in Procs :
        /\ calls[p] = 2 /\ pc[p] = "cleanup"
        /\ loc[p].provider = "folderlock" /\ lock[loc[p].rundir] = p
        /\ hist[p].prev.kind = CPE

BothTemp(p, q) == p # q /\ args[p].rundir = None /\ args[q].rundir = None

\* The artifacts of a finished call are what its solver produced.
ArtsAsProduced(p) ==
    \A c \in Produces : Arts(p)[c[2]] = File(hist[p].produced[c[1]])

\* C6 as stated: the resulting artifacts of a temp-directory run are not
\* altered by any step of a concurrent temp-directory run.
C6_Original ==
    \A p, q \in Procs :
        BothTemp(p, q) /\ Done(p) /\ err[p].kind = "" => ArtsAsProduced(p)

\* No step of another invocation changes the run directory of p.
RunDirUntouched(p) ==
    args[p].rundir = None /\ InSeq(p) /\ pc'[p] = pc[p] =>
        /\ fs'[loc[p].rundir] = fs[loc[p].rundir]
        /\ loc[p].rundir \in dirs'

\* C6, amended: two concurrent temp-directory runs have different run
\* directories, no step of one changes the run directory of the other, and
\* the artifacts of one are not altered by the other when their destination
\* directories or output names differ.
C6_TempRunsIsolated ==
    /\ [](\A p, q \in Procs :
            BothTemp(p, q) =>
               /\ InSeq(p) /\ InSeq(q) => loc[p].rundir # loc[q].rundir
               /\ /\ Done(p) /\ err[p].kind = ""
                  /\ <<loc[p].outdir, loc[p].outfile>> # <<loc[q].outdir, loc[q].outfile>>
                  => ArtsAsProduced(p))
    /\ [][\A p \in Procs : RunDirUntouched(p)]_vars

\* Two temp-directory runs are inside their sequences at the same time.
C6_Witness ==
    \E p, q \in Procs :
        /\ BothTemp(p, q)
        /\ pc[p] = "extract" /\ pc[q] = "run"
        /\ loc[p].rundir \in TmpDirs /\ loc[q].rundir \in TmpDirs

\* C7: after a run with rundir=None, successful or not, the output location
\* differs from what it was before the call in the named artifacts only (no
\* solver-channel file was created there) and the temporary run directory no
\* longer exists.
C7_TempRunLeavesNoChannelFiles ==
    \A p \in Procs :
        Done(p) /\ args[p].rundir = None =>
            /\ \A n \in Names \ {ArtName(loc[p].outfile, e) : e \in AllExts} :
                  fs[loc[p].outdir][n] = hist[p].preout[n]
            /\ loc[p].rundir \in TmpDirs
            /\ loc[p].rundir \notin dirs

\* A temp-directory run whose solver failed.
C7_Witness ==
    \E p \in Procs :
        /\ Done(p) /\ args[p].rundir = None
        /\ err[p].kind = CPE /\ hist[p].solver = 1

\* C8: a second call of run on the same instance, with nothing changed by
\* the caller in between, ends as the first did and leaves the same artifacts
\* in the destination.
C8_SecondRunSame ==
    \A p \in Procs :
        Done(p) /\ hist[p].unchanged =>
            /\ err[p].kind = hist[p].prev.kind
            /\ Arts(p) = hist[p].prev.arts

\* A second successful run in a directory of its own, with an entry added to
\* the link table by the discovery of the first.
C8_Witness ==
    \E p \in Procs :
        /\ Done(p) /\ hist[p].unchanged /\ err[p].kind = ""
        /\ loc[p].rundir = "run"
        /\ "data" \in Keys(linkfiles[p]) /\ "fort.56" \in Keys(linkfiles[p])

\* The staging step of a call whose table has no fort.56 entry and whose
\* descriptors can be read.
Fort56Step(p) ==
    /\ pc[p] = "stage" /\ pc'[p] # "stage"
    /\ "fort.56" \notin Keys(linkfiles[p])
    /\ Exists(fs, dirs, FormatSrc(Get(linkfiles[p], "{model}.5"), loc[p].model,
                                  loc[p].modeldir))
    /\ Exists(fs, dirs, Path(CWD, "fort.55"))

\* C9: when the table has no fort.56 entry: with ichemc non-zero and fort.56
\* on disk the entry fort.56 -> fort.56 is added, the file is staged and the
\* run goes on; with ichemc non-zero and no fort.56 the run fails with
\* FileNotFoundError naming fort.56, no link is created and the solver does
\* not run; with ichemc zero no fort.56 entry is added.
C9_Fort56Detection ==
    [][\A p \in Procs :
         Fort56Step(p) =>
            LET ichemc == Ichemc(Read(fs, dirs, Path(CWD, "fort.55")))
            IN IF ichemc = 0
               THEN "fort.56" \notin Keys(linkfiles'[p])
               ELSE IF Exists(fs, dirs, Path(CWD, "fort.56"))
               THEN /\ "fort.56" \in Keys(linkfiles'[p])
                    /\ Get(linkfiles'[p], "fort.56") = "fort.56"
                    /\ Exists(fs', dirs', Path(loc[p].rundir, "fort.56"))
                    /\ pc'[p] = "check" /\ err'[p] = NoErr
               ELSE /\ err'[p] = Raise(FNF, "fort.56")
                    /\ "fort.56" \notin Keys(linkfiles'[p])
                    /\ fs' = fs
                    /\ pc'[p] = "exit" /\ hist'[p].solver = 0]_vars

\* fort.56 was detected and linked into a run directory.
C9_Witness ==
    \E p \in Procs :
        /\ pc[p] = "check" /\ loc[p].rundir = "run"
        /\ fs["run"]["fort.56"] = Link(CWD, "fort.56")
        /\ Get(linkfiles[p], "fort.56") = "fort.56"

\* C10: from every table an instance reaches, add_link(source, dest) gives a
\* table where dest (source when dest is omitted) maps to source, every
\* other entry is as before and no key occurs twice.
C10_AddLinkSetsEntry ==
    \A p \in Procs : \A l \in LinkArgs :
        LET d == linkfiles[p]
            k == IF l[2] = None THEN l[1] ELSE l[2]
            d2 == AddLinkTable(d, l[1], l[2])
        IN /\ Keys(d2) = Keys(d) \cup {k}
           /\ Get(d2, k) = l[1]
           /\ \A j \in Keys(d) \ {k} : Get(d2, j) = Get(d, j)
           /\ Cardinality(Keys(d2)) = Len(d2)
           /\ Cardinality(Keys(d)) = Len(d)

\* The default entry fort.19 was overridden and a source that does not exist
\* was linked.
C10_Witness ==
    \E p \in Procs :
        /\ Get(linkfiles[p], "fort.19") = "linelist"
        /\ "data" \in Keys(linkfiles[p]) /\ Get(linkfiles[p], "data") = "data"
        /\ ~Exists(fs, dirs, Path(CWD, "data"))
        /\ calls[p] = 0

\* The phases of one call of run, in the order of lines 65-70.
PhaseOrder == <<"cleanup", "discover", "link", "check", "run", "extract">>

Started(p, phase) == \E i \in DOMAIN hist[p].phases : hist[p].phases[i] = phase

\* C11: within one call of run the phases start at most once each and in the
\* fixed order cleanup, discovery, link creation, verification of the
\* required files, solver execution, extraction; no phase starts once the
\* call has raised; the solver is invoked at most once; extraction starts
\* only after the solver exited with status zero; and the data artifacts
\* removed by the cleanup stay absent when the call fails before extraction.
C11_PhasesInOrder ==
    /\ [](\A p \in Procs :
            LET h == hist[p].phases
            IN /\ Len(h) <= Len(PhaseOrder)
               /\ \A i \in DOMAIN h : h[i] = PhaseOrder[i]
               /\ hist[p].solver <= 1
               /\ hist[p].solver = 1 => Started(p, "run")
               /\ Started(p, "extract") => hist[p].solver = 1 /\ hist[p].code = 0
               /\ Started(p, "cleanup") /\ err[p].kind # "" /\ ~Started(p, "extract")
                     => \A e \in DataExts : Arts(p)[e] = Absent)
    /\ [][\A p \in Procs :
            err[p].kind # "" /\ pc[p] \notin {"idle", "done"}
                => hist'[p].phases = hist[p].phases]_vars

\* A call that went through every phase up to the solver, whose solver
\* exited non-zero over a destination that held stale artifacts.
C11_Witness ==
    \E p \in Procs :
        /\ Done(p) /\ err[p].kind = CPE /\ hist[p].code = 1
        /\ hist[p].phases = SubSeq(PhaseOrder, 1, 5)
        /\ \A e \in DataExts : PreArts(p)[e] = Stale

\* The staging of process p succeeds in this step.
Staged(p) == pc[p] = "stage" /\ pc'[p] = "check"

\* C12: when staging succeeds, for every entry of the link table, with its
\* source and destination resolved: if the run directory is the working
\* directory and the source resolves to the path the destination resolves
\* to, the destination is left as it is; otherwise the destination in the
\* run directory is a symbolic link to the resolved source, whatever file
\* or link was there.
C12_LinkOrSkip ==
    [][\A p \in Procs :
         Staged(p) =>
           \A i \in DOMAIN linkfiles'[p] :
             LET rd == loc[p].rundir
                 src == Resolve(fs, FormatSrc(linkfiles'[p][i].src, loc[p].model,
                                              loc[p].modeldir))
                 dstname == FormatDst(linkfiles'[p][i].dst, loc[p].model)
             IN IF rd = CWD /\ src = Resolve(fs, Path(CWD, dstname))
                THEN fs'[rd][dstname] = fs[rd][dstname]
                ELSE fs'[rd][dstname] = Link(src.dir, src.name)]_vars

\* Staged in the working directory with the linelist redirected: fort.19 is
\* a link to the linelist while fort.55, its own source, is still the
\* regular file.
C12_Witness ==
    \E p \in Procs :
        /\ pc[p] = "check" /\ loc[p].rundir = CWD
        /\ fs[CWD]["fort.19"] = Link(CWD, "linelist")
        /\ fs[CWD]["fort.55"].kind = "file"

\* Process p takes the step of _copy_to_rundir.
Discovers(p) == pc[p] = "stage" /\ pc'[p] # "stage"

\* The references of the input descriptor of process p's call.
Candidates(p) ==
    Refs(Read(fs, dirs, FormatSrc(Get(linkfiles[p], "{model}.5"), loc[p].model,
                                  loc[p].modeldir)))

\* C13: discovery leaves every entry of the link table as it is, whoever set
\* it; an entry it adds maps a name to itself, and the name exists in the
\* working directory and had no entry; every reference of the input
\* descriptor that exists in the working directory and has no entry gets
\* one.  (fort.56 is the one name added that is not a reference.)
C13_DiscoveryOnlyAdds ==
    [][\A p \in Procs :
         Discovers(p) =>
           LET d == linkfiles[p]
               d2 == linkfiles'[p]
           IN /\ \A k \in Keys(d) : k \in Keys(d2) /\ Get(d2, k) = Get(d, k)
              /\ \A k \in Keys(d2) \ Keys(d) :
                    /\ Get(d2, k) = k
                    /\ Exists(fs, dirs, Path(CWD, k))
                    /\ k \in Candidates(p) \cup {"fort.56"}
              /\ \A k \in Candidates(p) :
                    Exists(fs, dirs, Path(CWD, k)) /\ k \notin Keys(d)
                        => k \in Keys(d2)]_vars

\* Discovery has run on a descriptor that refers to data, which exists,
\* while the caller had mapped data to the linelist: the entry is the
\* caller's.
C13_Witness ==
    \E p \in Procs :
        /\ pc[p] = "check" /\ loc[p].model = "m"
        /\ Read(fs, dirs, Path(CWD, "m.5")) = "in+data"
        /\ Exists(fs, dirs, Path(CWD, "data"))
        /\ "data" \in Keys(linkfiles[p])
        /\ Get(linkfiles[p], "data") = "linelist"

\* C14: when the link table has an entry for fort.56 as discovery runs, the
\* entry is left as it is, discovery does not fail for fort.56 whatever the
\* flag of the configuration, and the configuration is not read: with a
\* readable input descriptor discovery succeeds even when the configuration
\* is missing.
C14_ExplicitFort56 ==
    [][\A p \in Procs :
         Discovers(p) /\ "fort.56" \in Keys(linkfiles[p]) =>
           /\ Get(linkfiles'[p], "fort.56") = Get(linkfiles[p], "fort.56")
           /\ err'[p] # Raise(FNF, "fort.56")
           /\ Exists(fs, dirs, FormatSrc(Get(linkfiles[p], "{model}.5"),
                                         loc[p].model, loc[p].modeldir))
                 => err'[p] = NoErr /\ pc'[p] = "check"]_vars

\* Discovery has passed with the caller's fort.56 entry while the flag is
\* set and the working directory has no fort.56.
C14_Witness ==
    \E p \in Procs :
        /\ pc[p] = "check" /\ loc[p].rundir = "run"
        /\ "fort.56" \in Keys(linkfiles[p])
        /\ Get(linkfiles[p], "fort.56") = "fort.56"
        /\ Ichemc(Read(fs, dirs, Path(CWD, "fort.55"))) = 1
        /\ ~Exists(fs, dirs, Path(CWD, "fort.56"))

\* The solver of process p's call has run and the call is still inside its
\* run directory.
SolverRan(p) == hist[p].solver = 1 /\ pc[p] \in {"extract", "exit"}

\* C15: once the runner has invoked the solver, fort.8 in the run directory
\* is a link to the model's .7 there, the solver has read the model's .5 of
\* the run directory and written in the run directory, its standard output
\* and its standard error are both in fort.log (nothing reached the caller's
\* standard error), and a non-zero exit is raised as CalledProcessError.
C15_Original ==
    \A p \in Procs :
        SolverRan(p) =>
            LET rd == loc[p].rundir
                stdin == Path(rd, loc[p].model \o ".5")
            IN /\ fs[rd]["fort.8"] = Link(rd, loc[p].model \o ".7")
               /\ Exists(fs, dirs, stdin)
               /\ fs[rd]["fort.log"].kind = "file"
               /\ hist[p].code = 0 <=> err[p] = NoErr
               /\ hist[p].code # 0 <=> err[p] = Raise(CPE, "synspec")
               /\ hist[p].tty = ""
               /\ hist[p].code # 0 =>
                     Read(fs, dirs, Path(rd, "fort.log")) = "error+diag"

\* C15, as the code does it: the same, except that only the standard output
\* is in fort.log; the diagnostic of a failing solver reaches the caller's
\* standard error and not the log.
C15_StdoutOnlyInLog ==
    \A p \in Procs :
        SolverRan(p) =>
            LET rd == loc[p].rundir
                stdin == Path(rd, loc[p].model \o ".5")
            IN /\ fs[rd]["fort.8"] = Link(rd, loc[p].model \o ".7")
               /\ Exists(fs, dirs, stdin)
               /\ fs[rd]["fort.log"].kind = "file"
               /\ hist[p].code = 0 <=> err[p] = NoErr
               /\ hist[p].code # 0 <=> err[p] = Raise(CPE, "synspec")
               /\ hist[p].code # 0 =>
                     /\ hist[p].tty = "diag"
                     /\ Read(fs, dirs, Path(rd, "fort.log")) = "error"

\* The solver has failed in a run directory of the caller's.
C15_Witness ==
    \E p \in Procs :
        /\ SolverRan(p) /\ hist[p].code = 1 /\ loc[p].rundir = "run"
        /\ hist[p].tty = "diag"

\* C16: a run directory named by the caller exists from the first call on,
\* whatever the calls end with; and after a call in it that failed by the
\* solver's exit status, every link the call staged, the link fort.8, the
\* partial output of the solver and its log are still in the run directory.
C16_PersistentDirKept ==
    \A p \in Procs :
        args[p].rundir # None /\ pc[p] # "idle" =>
            LET rd == args[p].rundir
            IN /\ rd \in dirs
               /\ Done(p) /\ err[p].kind = CPE =>
                    /\ \A n \in Names :
                          hist[p].staged[n] # Absent => fs[rd][n] = hist[p].staged[n]
                    /\ fs[rd]["fort.8"] = Link(rd, loc[p].model \o ".7")
                    /\ fs[rd]["fort.7"] = File("partial")
                    /\ fs[rd]["fort.log"] = File(hist[p].produced["fort.log"])

\* A call in the run directory "run" has ended with the solver's failure,
\* having staged the four default links.
C16_Witness ==
    \E p \in Procs :
        /\ Done(p) /\ err[p].kind = CPE /\ args[p].rundir = "run"
        /\ \A n \in {"fort.19", "fort.55", "m.5", "m.7"} :
              hist[p].staged[n].kind = "link"

\* C17: after a successful call the artifacts are in the destination the
\* arguments resolve to: outdir when given, else the run directory when the
\* caller named one, else the working directory; under outfile when given,
\* else under the model's name.  The destination directory exists, created
\* when it did not; and no artifact name of any other directory or of any
\* other output name has changed since the call started.
C17_DestinationResolved ==
    \A p \in Procs :
        Done(p) /\ err[p].kind = "" =>
            LET a == args[p]
                od == IF a.outdir # None THEN a.outdir
                      ELSE IF a.rundir # None THEN a.rundir ELSE CWD
                of == IF a.outfile # None THEN a.outfile ELSE loc[p].model
            IN /\ od \in dirs
               /\ \A c \in Produces :
                     fs[od][ArtName(of, c[2])] = File(hist[p].produced[c[1]])
               /\ \A d \in Dirs, o \in OutFiles, e \in AllExts :
                     d # od \/ o # of =>
                        fs[d][ArtName(o, e)] = hist[p].prefs[d][ArtName(o, e)]

\* A successful call in a temporary directory whose destination "out" did
\* not exist when the call started, the output name left to the model's.
C17_Witness ==
    \E p \in Procs :
        /\ Done(p) /\ err[p].kind = ""
        /\ args[p].rundir = None /\ args[p].outdir = "out" /\ args[p].outfile = None
        /\ "out" \notin hist[p].predirs /\ "out" \in dirs
        /\ fs["out"]["m.spec"].kind = "file"

\* C18: no step removes a key of the link table, and no step of run changes
\* the source of an entry: the entries of the caller, the defaults and those
\* discovery added in an earlier call are there in every later call,
\* whatever its model and however the earlier call ended.
C18_LinkTableGrows ==
    [][\A p \in Procs :
         /\ Keys(linkfiles[p]) \subseteq Keys(linkfiles'[p])
         /\ pc'[p] # pc[p] =>
               \A k \in Keys(linkfiles[p]) :
                   Get(linkfiles'[p], k) = Get(linkfiles[p], k)]_vars

\* A second call, for the model "n" that refers to no data, after a call
\* for "m" that discovered data and then failed by the solver's exit status:
\* the entry for data is still there and its link is staged.
C18_Witness ==
    \E p \in Procs :
        /\ calls[p] = 2 /\ pc[p] = "check"
        /\ loc[p].model = "n" /\ loc[p].rundir = "run"
        /\ hist[p].prev.kind = CPE
        /\ "data" \in Keys(linkfiles[p])
        /\ Get(linkfiles[p], "data") = "data"
        /\ fs["run"]["data"] = Link(CWD, "data")

\* Process p takes the step of _remove_potential_outfiles.
Cleans(p) == pc[p] = "cleanup" /\ pc'[p] = "stage"

\* C19: the cleanup creates and removes no directory; when the destination
\* directory does not exist it changes nothing; otherwise it removes the
\* regular files of the destination named <outfile>.spec, .iden, .eqws and
\* .cont and leaves every other entry of every directory as it is, the
\* log, the files under other output names and the staged inputs included.
C19_CleanupFrame ==
    [][\A p \in Procs :
         Cleans(p) =>
           LET od == loc[p].outdir
               gone == {ArtName(loc[p].outfile, e) : e \in DataExts}
           IN /\ dirs' = dirs
              /\ od \notin dirs => fs' = fs
              /\ \A d \in Dirs, n \in Names :
                    IF d = od /\ od \in dirs /\ n \in gone /\ fs[d][n].kind = "file"
                    THEN fs'[d][n] = Absent
                    ELSE fs'[d][n] = fs[d][n]]_vars

\* The cleanup of a second call whose destination is its run directory:
\* the data artifact of the first call is gone, its log, the stale file
\* under another output name and the staged link of fort.19 are there.
C19_Witness ==
    \E p \in Procs :
        /\ calls[p] = 2 /\ pc[p] = "stage"
        /\ loc[p].rundir = "run" /\ loc[p].outdir = "run" /\ loc[p].outfile = "m"
        /\ PreArts(p)["spec"].kind = "file" /\ Arts(p)["spec"] = Absent
        /\ Arts(p)["log"].kind = "file"
        /\ fs["run"]["o.spec"] = Stale
        /\ fs["run"]["fort.19"].kind = "link"

\* Process p, inside a call of run, takes a step that changes the
\* filesystem.
Mutates(p) ==
    /\ pc[p] \notin {"idle", "done"} /\ pc'[p] # pc[p]
    /\ fs' # fs \/ dirs' # dirs

\* C20: in a call whose run directory the caller named, every step after
\* the creation of the run directory that changes the filesystem is taken
\* with the lock of the run directory held by the call, before the step and
\* after it.
C20_MutationsUnderLock ==
    [][\A p \in Procs :
         args[p].rundir # None /\ Mutates(p) =>
            /\ lock[args[p].rundir] = p
            /\ lock'[args[p].rundir] = p]_vars

\* A call has extracted its outputs in the run directory "run", still
\* holding its lock, while the other caller is at the entry of the same
\* directory.
C20_Witness ==
    \E p, q \in Procs :
        /\ p # q /\ args[p].rundir = "run" /\ args[q].rundir = "run"
        /\ pc[p] = "exit" /\ err[p].kind = "" /\ lock["run"] = p
        /\ pc[q] = "enter"
        /\ fs["run"]["fort.7"].kind = "file"
====
